---- MODULE Spec2Model ----
(***************************************************************************)
(* Model of weather_mcp_main.py: the tool get_current_weather of the       *)
(* "Weather Service" MCP server.                                           *)
(*                                                                         *)
(* Representation of values.                                               *)
(*   - A text is a sequence of tokens.  A token is a one-character string, *)
(*     or an ASCII name standing for a run of non-ASCII characters of a    *)
(*     literal of the source (TLA+ strings are ASCII); each such name is   *)
(*     introduced below next to the literal it stands for.                 *)
(*   - The userinfo header and its decoded value are sequences of code     *)
(*     points (integers), because base64 and UTF-8 are arithmetic on them. *)
(*   - A Python/JSON value is a record [t |-> tag, v |-> payload] with     *)
(*     tag "str" (v a text), "int" (v an integer), "float" (v the number   *)
(*     in tenths, i.e. a float with one decimal digit), "null", "arr"      *)
(*     (v a sequence of values) or "obj" (v a function from keys).         *)
(***************************************************************************)
EXTENDS Integers, Sequences, FiniteSets, TLC

VARIABLES
    WEATHER_API_KEY,  \* module global, line 22: read once from the environment
    pc,               \* pc[i]: where invocation i of get_current_weather is
    args,             \* args[i]: [city, country, units] of invocation i
    reqHeaders,       \* reqHeaders[i]: the headers of i's HTTP request (a dict)
    headersRead,      \* headersRead[i]: get_http_headers() was called by i
    location,         \* location[i]: the local variable location
    client,           \* client[i]: "none" | "open" | "closed" (httpx.AsyncClient)
    sent,             \* sent[i]: the GET requests i has issued, in order
    response,         \* response[i]: the local variable response
    exc,              \* exc[i]: the exception in flight in i
    result,           \* result[i]: the returned mapping
    raised,           \* raised[i]: an exception left get_current_weather
    delivered,        \* delivered[i]: what the provider/network answered to i
    stdout            \* the process's standard output: the lines printed

vars == <<WEATHER_API_KEY, pc, args, reqHeaders, headersRead, location,
          client, sent, response, exc, result, raised, delivered, stdout>>

None == [t |-> "null", v |-> 0]
Str(s) == [t |-> "str", v |-> s]
Int_(n) == [t |-> "int", v |-> n]
Float(tenths) == [t |-> "float", v |-> tenths]
Arr(s) == [t |-> "arr", v |-> s]
Obj(f) == [t |-> "obj", v |-> f]

\* Python truthiness of a value (used by `if not x`, `if x`).
Truthy(x) ==
    CASE x.t = "null" -> FALSE
      [] x.t = "str" -> x.v # <<>>
      [] x.t = "int" -> x.v # 0
      [] x.t = "float" -> x.v # 0
      [] x.t = "arr" -> x.v # <<>>
      [] x.t = "obj" -> DOMAIN x.v # {}

(***************************************************************************)
(* str() of numbers.                                                       *)
(***************************************************************************)
Digits == <<"0", "1", "2", "3", "4", "5", "6", "7", "8", "9">>

RECURSIVE NatStr(_)
NatStr(n) == IF n < 10 THEN <<Digits[n + 1]>>
             ELSE NatStr(n \div 10) \o <<Digits[(n % 10) + 1]>>

IntStr(n) == IF n < 0 THEN <<"-">> \o NatStr(0 - n) ELSE NatStr(n)

\* repr of a float that has one decimal digit: 20.5 -> "20.5", 3.0 -> "3.0"
FloatStr(tenths) ==
    LET a == IF tenths < 0 THEN 0 - tenths ELSE tenths
    IN  (IF tenths < 0 THEN <<"-">> ELSE <<>>)
            \o NatStr(a \div 10) \o <<".">> \o <<Digits[(a % 10) + 1]>>

\* What an f-string replacement field {x} renders: format(x, "") = str(x).
Format(x) ==
    CASE x.t = "str" -> x.v
      [] x.t = "int" -> IntStr(x.v)
      [] x.t = "float" -> FloatStr(x.v)
      [] x.t = "null" -> <<"N", "o", "n", "e">>
      [] x.t = "arr" -> <<"repr(list)">>
      [] x.t = "obj" -> <<"repr(dict)">>

(***************************************************************************)
(* base64.urlsafe_b64decode(userinfo).decode("utf-8"), line 57.            *)
(* Outcomes are [ok |-> TRUE, v |-> ...] or [ok |-> FALSE, e |-> exception]*)
(***************************************************************************)
Ok(v) == [ok |-> TRUE, v |-> v]
Raise(type, text) == [ok |-> FALSE, e |-> [type |-> type, text |-> text]]

\* The urlsafe translation ('-' -> '+', '_' -> '/') followed by the value of
\* a character in the standard alphabet; 64 for a character outside it.
B64Value(c) ==
    LET d == IF c = 45 THEN 43 ELSE IF c = 95 THEN 47 ELSE c
    IN  CASE d >= 65 /\ d <= 90  -> d - 65
          [] d >= 97 /\ d <= 122 -> d - 97 + 26
          [] d >= 48 /\ d <= 57  -> d - 48 + 52
          [] d = 43 -> 62
          [] d = 47 -> 63
          [] OTHER -> 64

\* binascii.a2b_base64 without strict_mode: characters outside the alphabet
\* are skipped, a complete pad sequence ends the parse, and a quad left
\* open at the end of the input is an error.
RECURSIVE A2B(_, _, _, _, _, _)
A2B(s, i, quad_pos, leftchar, pads, out) ==
    IF i > Len(s)
    THEN IF quad_pos = 0 THEN Ok(out)
         ELSE IF quad_pos = 1
              THEN Raise("binascii.Error", <<"Invalid base64-encoded string">>)
              ELSE Raise("binascii.Error", <<"Incorrect padding">>)
    ELSE IF s[i] = 61
    THEN IF quad_pos >= 2 /\ quad_pos + pads + 1 >= 4
         THEN Ok(out)
         ELSE A2B(s, i + 1, quad_pos, leftchar,
                  IF quad_pos >= 2 THEN pads + 1 ELSE pads, out)
    ELSE LET c == B64Value(s[i]) IN
         IF c >= 64 THEN A2B(s, i + 1, quad_pos, leftchar, pads, out)
         ELSE CASE quad_pos = 0 -> A2B(s, i + 1, 1, c, 0, out)
                [] quad_pos = 1 ->
                     A2B(s, i + 1, 2, c % 16, 0,
                         Append(out, leftchar * 4 + (c \div 16)))
                [] quad_pos = 2 ->
                     A2B(s, i + 1, 3, c % 4, 0,
                         Append(out, leftchar * 16 + (c \div 4)))
                [] quad_pos = 3 ->
                     A2B(s, i + 1, 0, 0, 0, Append(out, leftchar * 64 + c))

urlsafe_b64decode(s) ==
    IF \E i \in 1..Len(s) : s[i] >= 128
    THEN Raise("ValueError",
               <<"string argument should contain only ASCII characters">>)
    ELSE A2B(s, 1, 0, 0, 0, <<>>)

\* bytes.decode("utf-8"), strict: the code points, or UnicodeDecodeError.
IsCont(b, i) == i <= Len(b) /\ b[i] >= 128 /\ b[i] <= 191

RECURSIVE Utf8Decode(_, _, _)
Utf8Decode(b, i, out) ==
    LET bad == Raise("UnicodeDecodeError",
                     <<"'utf-8' codec can't decode byte">>)
    IN
    IF i > Len(b) THEN Ok(out)
    ELSE IF b[i] < 128 THEN Utf8Decode(b, i + 1, Append(out, b[i]))
    ELSE IF b[i] >= 194 /\ b[i] <= 223
    THEN IF IsCont(b, i + 1)
         THEN Utf8Decode(b, i + 2,
                         Append(out, (b[i] - 192) * 64 + (b[i + 1] - 128)))
         ELSE bad
    ELSE IF b[i] >= 224 /\ b[i] <= 239
    THEN IF /\ IsCont(b, i + 1) /\ IsCont(b, i + 2)
            /\ (b[i] = 224 => b[i + 1] >= 160)
            /\ (b[i] = 237 => b[i + 1] <= 159)
         THEN Utf8Decode(b, i + 3,
                         Append(out, (b[i] - 224) * 4096
                                     + (b[i + 1] - 128) * 64 + (b[i + 2] - 128)))
         ELSE bad
    ELSE IF b[i] >= 240 /\ b[i] <= 244
    THEN IF /\ IsCont(b, i + 1) /\ IsCont(b, i + 2) /\ IsCont(b, i + 3)
            /\ (b[i] = 240 => b[i + 1] >= 144)
            /\ (b[i] = 244 => b[i + 1] <= 143)
         THEN Utf8Decode(b, i + 4,
                         Append(out, (b[i] - 240) * 262144
                                     + (b[i + 1] - 128) * 4096
                                     + (b[i + 2] - 128) * 64 + (b[i + 3] - 128)))
         ELSE bad
    ELSE bad

DecodeUserinfo(userinfo) ==
    LET raw == urlsafe_b64decode(userinfo)
    IN  IF raw.ok THEN Utf8Decode(raw.v, 1, <<>>) ELSE raw

(***************************************************************************)
(* Names for the non-ASCII literals of the source.                         *)
(***************************************************************************)
K_error == "cuowu"                 \* "错误"
K_city == "chengshi"               \* "城市"
K_country == "guojia"              \* "国家"
K_description == "tianqi_zhuangkuang"  \* "天气状况"
K_temp == "dangqian_wendu"         \* "当前温度"
K_feels_like == "tigan_wendu"      \* "体感温度"
K_temp_min == "zuidi_wendu"        \* "最低温度"
K_temp_max == "zuigao_wendu"       \* "最高温度"
K_humidity == "shidu"              \* "湿度"
K_pressure == "qiya"               \* "气压"
K_wind == "fengsu"                 \* "风速"
K_clouds == "yunliang"             \* "云量"
Deg == "deg"                       \* the character "°"

\* "请设置环境变量 WEATHER_API_KEY", line 47
M_NoKey == <<"qing shezhi huanjing bianliang WEATHER_API_KEY">>
\* "未找到城市: ", line 103
M_NotFound == <<"weizhaodao chengshi: ">>
\* "API密钥无效，请检查 WEATHER_API_KEY 环境变量", line 105
M_BadKey == <<"API miyao wuxiao, qing jiancha WEATHER_API_KEY huanjing bianliang">>
\* "API请求失败: ", line 107
M_HttpFail == <<"API qingqiu shibai: ">>
\* "获取天气信息失败: ", line 109
M_Failed == <<"huoqu tianqi xinxi shibai: ">>

WEATHER_BASE_URL == <<"http://api.openweathermap.org/data/2.5">>

ErrorResult(msg) == (K_error :> Str(msg))

(***************************************************************************)
(* Subscripting a parsed JSON value, as Python does it.                    *)
(***************************************************************************)
\* type(x).__name__
TypeName(x) ==
    CASE x.t = "null" -> "NoneType"
      [] x.t = "arr" -> "list"
      [] x.t = "obj" -> "dict"
      [] OTHER -> x.t

NotSubscriptable(x) ==
    Raise("TypeError",
          <<"'", TypeName(x), "'", " object is not subscriptable">>)

\* x[k] for a string key k
GetItem(x, k) ==
    CASE x.t = "obj" -> IF k \in DOMAIN x.v THEN Ok(x.v[k])
                        ELSE Raise("KeyError", <<"'", k, "'">>)
      [] x.t = "arr" ->
            Raise("TypeError",
                  <<"list indices must be integers or slices, not str">>)
      [] x.t = "str" -> Raise("TypeError", <<"string indices must be integers">>)
      [] OTHER -> NotSubscriptable(x)

\* x[0]
GetFirst(x) ==
    CASE x.t = "arr" -> IF x.v # <<>> THEN Ok(x.v[1])
                        ELSE Raise("IndexError", <<"list index out of range">>)
      [] x.t = "str" -> IF x.v # <<>> THEN Ok(Str(<<x.v[1]>>))
                        ELSE Raise("IndexError", <<"string index out of range">>)
      [] x.t = "obj" -> Raise("KeyError", <<"0">>)
      [] OTHER -> NotSubscriptable(x)

\* data[p1][p2]...: the step "[0]" is the index 0, any other step a key.
RECURSIVE Lookup(_, _)
Lookup(x, path) ==
    IF path = <<>> THEN Ok(x)
    ELSE LET r == IF Head(path) = "[0]" THEN GetFirst(x)
                  ELSE GetItem(x, Head(path))
         IN  IF r.ok THEN Lookup(r.v, Tail(path)) ELSE r

(***************************************************************************)
(* Lines 84-96: the entries of weather_info, in evaluation order.  An      *)
(* entry with raw = TRUE is the provider's value itself; the others are    *)
(* f-strings: the formatted value followed by a suffix.                    *)
(***************************************************************************)
TempUnitBug(units) == IF units = "imperial" THEN "F" ELSE "C"

\* 'C' if units == 'metric' else 'F'
TempUnit(units) == IF units = "metric" THEN "C" ELSE "F"

\* 'm/s' if units == 'metric' else 'mph'
WindUnit(units) == IF units = "metric" THEN <<"m", "/", "s">>
                   ELSE <<"m", "p", "h">>

Entry(k, path, raw, suffix) ==
    [k |-> k, path |-> path, raw |-> raw, suffix |-> suffix]

WeatherEntries(units) ==
    LET temp == <<Deg, TempUnit(units)>> IN
    << Entry(K_city, <<"name">>, TRUE, <<>>),
       Entry(K_country, <<"sys", "country">>, TRUE, <<>>),
       Entry(K_description, <<"weather", "[0]", "description">>, TRUE, <<>>),
       Entry(K_temp, <<"main", "temp">>, FALSE, temp),
       Entry(K_feels_like, <<"main", "feels_like">>, FALSE, temp),
       Entry(K_temp_min, <<"main", "temp_min">>, FALSE, temp),
       Entry(K_temp_max, <<"main", "temp_max">>, FALSE, temp),
       Entry(K_humidity, <<"main", "humidity">>, FALSE, <<"%">>),
       Entry(K_pressure, <<"main", "pressure">>, FALSE, <<" ", "h", "P", "a">>),
       Entry(K_wind, <<"wind", "speed">>, FALSE, <<" ">> \o WindUnit(units)),
       Entry(K_clouds, <<"clouds", "all">>, FALSE, <<"%">>) >>

\* The dict display: entries are evaluated left to right, and the first
\* subscript that raises ends the evaluation.
RECURSIVE BuildInfo(_, _, _, _)
BuildInfo(data, entries, n, acc) ==
    IF n > Len(entries) THEN Ok(acc)
    ELSE LET en == entries[n]
             r == Lookup(data, en.path)
         IN  IF ~r.ok THEN r
             ELSE BuildInfo(data, entries, n + 1,
                            (en.k :> (IF en.raw THEN r.v
                                      ELSE Str(Format(r.v) \o en.suffix))) @@ acc)

EmptyDict == [k \in {} |-> None]

WeatherInfoDropsKey(data, units) ==
    BuildInfo(data, SubSeq(WeatherEntries(units), 1, 10), 1, EmptyDict)

weather_info(data, units) == BuildInfo(data, WeatherEntries(units), 1, EmptyDict)

(***************************************************************************)
(* The pieces of get_current_weather.                                      *)
(***************************************************************************)
CredentialCheckRemoved(key) == FALSE

\* line 46: if not WEATHER_API_KEY
CredentialMissing(key) == ~Truthy(Str(key))

\* dict.get(name): None when the key is absent
DictGet(d, name) == IF name \in DOMAIN d THEN d[name] ELSE None

\* The two prints of lines 60 and 62: a print is a format string and what it is formatted with.
UserInfoLine(userinfo) ==
    [fmt |-> "********************* User info *****************: {}",
     with |-> <<userinfo>>]
NoneUserInfoLine ==
    [fmt |-> "********************* None User info *****************",
     with |-> <<>>]

\* lines 55-62 with headers["userinfo"] in place of headers.get("userinfo")
ReadUserinfoSubscript(headers) ==
    IF "userinfo" \notin DOMAIN headers
    THEN Raise("KeyError", <<"'", "userinfo", "'">>)
    ELSE LET d == DecodeUserinfo(headers["userinfo"].v)
         IN  IF d.ok THEN Ok(UserInfoLine(d.v)) ELSE d

\* lines 55-62: the line printed, or the exception the decoding raises
ReadUserinfo(headers) ==
    LET userinfo == DictGet(headers, "userinfo")
    IN  IF Truthy(userinfo)
        THEN LET d == DecodeUserinfo(userinfo.v)
             IN  IF d.ok THEN Ok(UserInfoLine(d.v)) ELSE d
        ELSE Ok(NoneUserInfoLine)

BuildLocationAlwaysJoins(city, country) == city \o <<",">> \o Format(country)

\* lines 65-67
BuildLocation(city, country) ==
    IF Truthy(country) THEN city \o <<",">> \o Format(country) ELSE city

\* lines 69-74
Params(loc, key, units) ==
    [q |-> loc, appid |-> key, units |-> units, lang |-> "zh_cn"]

\* line 78: the request client.get issues
GetRequest(params) ==
    [method |-> "GET", url |-> WEATHER_BASE_URL \o <<"/weather">>,
     params |-> params]

IssueTwice(reqs, req) == Append(Append(reqs, req), req)

\* line 78: client.get sends one request
Issue(reqs, req) == Append(reqs, req)

\* an assignment to a local variable of invocation i
Assign(f, i, v) == [f EXCEPT ![i] = v]

SetResponseShared(f, i, v) == [j \in DOMAIN f |-> v]

\* line 78: response = await client.get(...), a local of invocation i
SetResponse(f, i, v) == Assign(f, i, v)

\* httpx: Response.is_success
is_success(status) == status >= 200 /\ status <= 299

HTTPStatusError == [type |-> "httpx.HTTPStatusError", text |-> <<"status error">>]

\* line 79: response.raise_for_status()
raise_for_status(resp) ==
    IF is_success(resp.status) THEN Ok(resp) ELSE [ok |-> FALSE, e |-> HTTPStatusError]

AExitLeaksOnError(c, e) == IF e.type = "" THEN "closed" ELSE c

\* line 77: leaving the async with block (AsyncClient.__aexit__) closes the
\* client, whether or not an exception e is in flight
AExitClient(c, e) == "closed"

\* line 81: response.json()
Json(body) ==
    IF body.t = "invalid"
    THEN Raise("json.JSONDecodeError",
               <<"Expecting value: line 1 column 1 (char 0)">>)
    ELSE Ok(body)

\* line 101
HttpErrorLine(resp) ==
    [fmt |-> "HTTP error occurred: {} - {}", with |-> <<resp.status, resp.body>>]

StatusErrorSwapped(status, city) ==
    IF status = 401 THEN ErrorResult(M_NotFound \o city)
    ELSE IF status = 404 THEN ErrorResult(M_BadKey)
    ELSE ErrorResult(M_HttpFail \o IntStr(status))

\* lines 102-107
StatusError(status, city) ==
    IF status = 404 THEN ErrorResult(M_NotFound \o city)
    ELSE IF status = 401 THEN ErrorResult(M_BadKey)
    ELSE ErrorResult(M_HttpFail \o IntStr(status))

\* The classes of the exceptions that can be in flight, all derived from
\* Exception.
ExceptionClasses ==
    {"binascii.Error", "ValueError", "UnicodeDecodeError", "KeyError",
     "IndexError", "TypeError", "json.JSONDecodeError", "httpx.ConnectError",
     "httpx.HTTPStatusError"}

CatchesValueErrorOnly(type) ==
    type \in {"binascii.Error", "ValueError", "UnicodeDecodeError",
              "json.JSONDecodeError"}

\* line 108: except Exception
CatchesException(type) == type \in ExceptionClasses

\* line 109
GenericError(e) == ErrorResult(M_Failed \o e.text)

(***************************************************************************)
(* Inputs: the arguments and headers of an invocation, the configured      *)
(* credential, and what the provider or the network answers.               *)
(***************************************************************************)
NumCalls == 2

Calls == 1..NumCalls

Keys == {<<>>, <<"k", "1">>}

Cities == {<<"s", "h">>, <<"N", "Y">>}
Countries == {None, Str(<<>>), Str(<<"C", "N">>)}
UnitSystems == {"metric", "imperial", "standard"}

Userinfo(cps) == ("userinfo" :> Str(cps))

H_absent == EmptyDict
H_empty == Userinfo(<<>>)                          \* userinfo:
H_a == Userinfo(<<89, 81, 61, 61>>)                \* "YQ==", "a"
H_skip == Userinfo(<<33, 89, 81, 61, 61>>)         \* "!YQ==", "a"
H_e_acute == Userinfo(<<119, 54, 107, 61>>)        \* "w6k=", U+00E9
H_nopad == Userinfo(<<89, 81>>)                    \* "YQ": incorrect padding
H_one == Userinfo(<<89>>)                          \* "Y": one data character
H_ff == Userinfo(<<95, 119, 61, 61>>)              \* "_w==": byte 0xFF
H_latin1 == Userinfo(<<233>>)                      \* a non-ASCII header value

Headers == {H_absent, H_empty, H_a, H_skip, H_e_acute, H_nopad, H_one, H_ff,
            H_latin1}

Main(temp, feels, lo, hi, hum, pres) ==
    Obj([temp |-> temp, feels_like |-> feels, temp_min |-> lo,
         temp_max |-> hi, humidity |-> hum, pressure |-> pres])

Body(name, country, weather, main, speed, clouds) ==
    Obj([name |-> name, sys |-> Obj([country |-> country]),
         weather |-> weather, main |-> main,
         wind |-> Obj([speed |-> speed]), clouds |-> Obj([all |-> clouds])])

Description(d) == Arr(<<Obj([description |-> d])>>)

Qing == "qing"   \* "晴"

B_shanghai ==
    Body(Str(<<"S", "h">>), Str(<<"C", "N">>), Description(Str(<<Qing>>)),
         Main(Int_(20), Int_(19), Int_(18), Int_(22), Int_(50), Int_(1012)),
         Int_(3), Int_(10))
B_floats ==
    Body(Str(<<"N", "Y">>), Str(<<"U", "S">>), Description(Str(<<"f", "o", "g">>)),
         Main(Float(-5), Float(-31), Float(-20), Float(105), Int_(100),
              Int_(998)),
         Float(41), Int_(0))
\* every documented key present, with an empty name and a null country
B_blank ==
    Body(Str(<<>>), None, Description(Str(<<>>)),
         Main(Int_(20), Int_(19), Int_(18), Int_(22), Int_(50), Int_(1012)),
         Int_(3), Int_(10))
B_no_name ==
    Obj([sys |-> Obj([country |-> Str(<<"C", "N">>)]),
         weather |-> Description(Str(<<Qing>>))])
B_no_weather ==
    Body(Str(<<"S", "h">>), Str(<<"C", "N">>), Arr(<<>>),
         Main(Int_(20), Int_(19), Int_(18), Int_(22), Int_(50), Int_(1012)),
         Int_(3), Int_(10))
B_null_main ==
    Body(Str(<<"S", "h">>), Str(<<"C", "N">>), Description(Str(<<Qing>>)),
         None, Int_(3), Int_(10))
\* the provider's error body: {"cod": "404", "message": "city not found"}
B_error == Obj([cod |-> Str(<<"4", "0", "4">>), message |-> Str(<<"nf">>)])
B_list == Arr(<<>>)
B_html == [t |-> "invalid", v |-> 0]   \* a body that is not JSON

Bodies == {B_shanghai, B_floats, B_blank, B_no_name, B_no_weather,
           B_null_main, B_error, B_list, B_html}

Statuses == {200, 204, 301, 401, 404, 500}

NoExc == [type |-> "", text |-> <<>>]
NoResponse == [status |-> 0, body |-> None]
NoOutcome == [kind |-> "none", resp |-> NoResponse, e |-> NoExc]
NoArgs == [city |-> <<>>, country |-> None, units |-> ""]

Answer(status, body) ==
    [kind |-> "response", resp |-> [status |-> status, body |-> body],
     e |-> NoExc]
NetworkError ==
    [kind |-> "error", resp |-> NoResponse,
     e |-> [type |-> "httpx.ConnectError",
            text |-> <<"All connection attempts failed">>]]

Outcomes == {Answer(s, b) : s \in Statuses, b \in Bodies} \cup {NetworkError}

\* The inputs of the specification with concurrent invocations.
SomeCountries == {Str(<<"C", "N">>)}
SomeUnitSystems == {"metric"}
SomeHeaders == {H_absent, H_a, H_nopad}
SomeOutcomes == {Answer(200, B_shanghai), Answer(404, B_error), NetworkError}

(***************************************************************************)
(* Lines 26-27: the two lines printed when the module is loaded.           *)
(***************************************************************************)
StartupLines(key) ==
    << [fmt |-> "API Key loaded: {}",
        with |-> <<IF Truthy(Str(key)) THEN "Yes" ELSE "No">>],
       [fmt |-> "API Key length: {}",
        with |-> <<IF Truthy(Str(key)) THEN Len(key) ELSE 0>>] >>

Init ==
    /\ WEATHER_API_KEY \in Keys
    /\ pc = [i \in Calls |-> "idle"]
    /\ args = [i \in Calls |-> NoArgs]
    /\ reqHeaders = [i \in Calls |-> EmptyDict]
    /\ headersRead = [i \in Calls |-> FALSE]
    /\ location = [i \in Calls |-> <<>>]
    /\ client = [i \in Calls |-> "none"]
    /\ sent = [i \in Calls |-> <<>>]
    /\ response = [i \in Calls |-> NoResponse]
    /\ exc = [i \in Calls |-> NoExc]
    /\ result = [i \in Calls |-> EmptyDict]
    /\ raised = [i \in Calls |-> FALSE]
    /\ delivered = [i \in Calls |-> NoOutcome]
    /\ stdout = StartupLines(WEATHER_API_KEY)

(***************************************************************************)
(* Lines 46-78, up to the await of client.get: the coroutine runs without  *)
(* suspending from its call to that point.                                 *)
(***************************************************************************)
Invoke(i, city, country, units, headers) ==
    /\ pc[i] = "idle"
    /\ args' = Assign(args, i,
                      [city |-> city, country |-> country, units |-> units])
    /\ reqHeaders' = Assign(reqHeaders, i, headers)
    /\ IF CredentialMissing(WEATHER_API_KEY)
       THEN /\ result' = Assign(result, i, ErrorResult(M_NoKey))
            /\ pc' = Assign(pc, i, "done")
            /\ UNCHANGED <<headersRead, location, client, sent, exc, stdout>>
       ELSE LET u == ReadUserinfo(headers) IN
            /\ headersRead' = Assign(headersRead, i, TRUE)
            /\ IF ~u.ok
               THEN /\ exc' = Assign(exc, i, u.e)
                    /\ pc' = Assign(pc, i, "except")
                    /\ UNCHANGED <<location, client, sent, stdout, result>>
               ELSE LET loc == BuildLocation(city, country) IN
                    /\ stdout' = Append(stdout, u.v)
                    /\ location' = Assign(location, i, loc)
                    /\ client' = Assign(client, i, "open")
                    /\ sent' = Assign(sent, i,
                           Issue(sent[i],
                                 GetRequest(Params(loc, WEATHER_API_KEY, units))))
                    /\ pc' = Assign(pc, i, "await_get")
                    /\ UNCHANGED <<exc, result>>
    /\ UNCHANGED <<WEATHER_API_KEY, response, raised, delivered>>

\* line 78: the await of client.get ends, with the provider's response or
\* with a network error raised inside the async with block.
ClientGet(i, o) ==
    /\ pc[i] = "await_get"
    /\ delivered' = Assign(delivered, i, o)
    /\ IF o.kind = "error"
       THEN /\ exc' = Assign(exc, i, o.e)
            /\ pc' = Assign(pc, i, "aexit")
            /\ UNCHANGED response
       ELSE /\ response' = SetResponse(response, i, o.resp)
            /\ pc' = Assign(pc, i, "raise_for_status")
            /\ UNCHANGED exc
    /\ UNCHANGED <<WEATHER_API_KEY, args, reqHeaders, headersRead, location,
                   client, sent, result, raised, stdout>>

\* line 79
RaiseForStatus(i) ==
    /\ pc[i] = "raise_for_status"
    /\ LET r == raise_for_status(response[i])
       IN  exc' = IF r.ok THEN exc ELSE Assign(exc, i, r.e)
    /\ pc' = Assign(pc, i, "aexit")
    /\ UNCHANGED <<WEATHER_API_KEY, args, reqHeaders, headersRead, location,
                   client, sent, response, result, raised, delivered, stdout>>

\* line 77: control leaves the async with block, normally or by an exception
AExit(i) ==
    /\ pc[i] = "aexit"
    /\ client' = Assign(client, i, AExitClient(client[i], exc[i]))
    /\ pc' = Assign(pc, i, IF exc[i] = NoExc THEN "json" ELSE "except")
    /\ UNCHANGED <<WEATHER_API_KEY, args, reqHeaders, headersRead, location,
                   sent, response, exc, result, raised, delivered, stdout>>

\* lines 81-98
FormatAndReturn(i) ==
    /\ pc[i] = "json"
    /\ LET data == Json(response[i].body)
           info == IF data.ok THEN weather_info(data.v, args[i].units) ELSE data
       IN  IF info.ok
           THEN /\ result' = Assign(result, i, info.v)
                /\ pc' = Assign(pc, i, "done")
                /\ UNCHANGED exc
           ELSE /\ exc' = Assign(exc, i, info.e)
                /\ pc' = Assign(pc, i, "except")
                /\ UNCHANGED result
    /\ UNCHANGED <<WEATHER_API_KEY, args, reqHeaders, headersRead, location,
                   client, sent, response, raised, delivered, stdout>>

\* lines 100-109: the except clauses of the try statement
Except(i) ==
    /\ pc[i] = "except"
    /\ IF exc[i].type = "httpx.HTTPStatusError"
       THEN /\ stdout' = Append(stdout, HttpErrorLine(response[i]))
            /\ result' = Assign(result, i,
                                StatusError(response[i].status, args[i].city))
            /\ UNCHANGED raised
       ELSE IF CatchesException(exc[i].type)
       THEN /\ result' = Assign(result, i, GenericError(exc[i]))
            /\ UNCHANGED <<raised, stdout>>
       ELSE /\ raised' = Assign(raised, i, TRUE)
            /\ UNCHANGED <<result, stdout>>
    /\ pc' = Assign(pc, i, "done")
    /\ UNCHANGED <<WEATHER_API_KEY, args, reqHeaders, headersRead, location,
                   client, sent, response, exc, delivered>>

(***************************************************************************)
(* Spec: NumCalls invocations in flight under the event loop, which runs   *)
(* one of them at a time and may resume them in any order.                 *)
(***************************************************************************)
Next ==
    \E i \in Calls :
        \/ \E city \in Cities, country \in SomeCountries,
              units \in SomeUnitSystems, headers \in SomeHeaders :
                Invoke(i, city, country, units, headers)
        \/ \E o \in SomeOutcomes : ClientGet(i, o)
        \/ RaiseForStatus(i)
        \/ AExit(i)
        \/ FormatAndReturn(i)
        \/ Except(i)

Spec == Init /\ [][Next]_vars

(***************************************************************************)
(* SpecOne: one invocation, over all the arguments, headers and answers.   *)
(***************************************************************************)
NextOne ==
    \/ \E city \in Cities, country \in Countries, units \in UnitSystems,
          headers \in Headers :
            Invoke(1, city, country, units, headers)
    \/ \E o \in Outcomes : ClientGet(1, o)
    \/ RaiseForStatus(1)
    \/ AExit(1)
    \/ FormatAndReturn(1)
    \/ Except(1)

SpecOne == Init /\ [][NextOne]_vars

(***************************************************************************)
(* get_current_weather as a function of the credential, the arguments, the *)
(* request headers and the answer to its one request: lines 46-109 run     *)
(* from the call to the return with nothing else running.                  *)
(***************************************************************************)
RunAlone(key, a, headers, o) ==
    IF CredentialMissing(key) THEN ErrorResult(M_NoKey)
    ELSE LET u == ReadUserinfo(headers) IN
         IF ~u.ok THEN GenericError(u.e)
         ELSE IF o.kind = "error" THEN GenericError(o.e)
         ELSE IF ~raise_for_status(o.resp).ok
              THEN StatusError(o.resp.status, a.city)
         ELSE LET data == Json(o.resp.body)
                  info == IF data.ok THEN weather_info(data.v, a.units)
                          ELSE data
              IN  IF info.ok THEN info.v ELSE GenericError(info.e)

(***************************************************************************)
(* Vocabulary of the properties.                                           *)
(***************************************************************************)
SummaryKeys == {K_city, K_country, K_description, K_temp, K_feels_like,
                K_temp_min, K_temp_max, K_humidity, K_pressure, K_wind,
                K_clouds}
TemperatureKeys == {K_temp, K_feels_like, K_temp_min, K_temp_max}
PassedThroughKeys == {K_city, K_country, K_description}

Done(i) == pc[i] = "done"
Configured == WEATHER_API_KEY # <<>>

IsText(x) == x.t = "str"
IsNonEmptyText(x) == x.t = "str" /\ x.v # <<>>
IsSummary(r) == DOMAIN r = SummaryKeys
IsErrorResult(r) == DOMAIN r = {K_error} /\ IsNonEmptyText(r[K_error])
Message(r) == r[K_error].v

StartsWith(s, pre) == Len(s) >= Len(pre) /\ SubSeq(s, 1, Len(pre)) = pre
EndsWith(s, suf) ==
    Len(s) >= Len(suf) /\ SubSeq(s, Len(s) - Len(suf) + 1, Len(s)) = suf
DropLast(s, n) == SubSeq(s, 1, Len(s) - n)

\* The number a decimal numeral denotes, the inverse of str(): an integer
\* numeral is read as an int, a numeral with one decimal digit as a float.
DigitValue(tok) == CHOOSE d \in 0..9 : Digits[d + 1] = tok
IsDigit(tok) == \E d \in 0..9 : Digits[d + 1] = tok

RECURSIVE NatValue(_)
NatValue(s) == IF s = <<>> THEN 0
               ELSE NatValue(DropLast(s, 1)) * 10 + DigitValue(s[Len(s)])

IsNumeral(s) ==
    LET u == IF s # <<>> /\ s[1] = "-" THEN Tail(s) ELSE s
    IN  /\ u # <<>>
        /\ \/ \A n \in 1..Len(u) : IsDigit(u[n])
           \/ /\ Len(u) >= 3
              /\ u[Len(u) - 1] = "."
              /\ \A n \in (1..Len(u)) \ {Len(u) - 1} : IsDigit(u[n])

NumeralValue(s) ==
    LET neg == s[1] = "-"
        u == IF neg THEN Tail(s) ELSE s
        sign == IF neg THEN -1 ELSE 1
    IN  IF Len(u) >= 3 /\ u[Len(u) - 1] = "."
        THEN Float(sign * (NatValue(DropLast(u, 2)) * 10 + DigitValue(u[Len(u)])))
        ELSE Int_(sign * NatValue(u))

HasResponse(i) == delivered[i].kind = "response"
Status(i) == delivered[i].resp.status
ProviderBody(i) == delivered[i].resp.body
\* the value at a path of the provider's body
Provided(i, path) == Lookup(ProviderBody(i), path).v

(***************************************************************************)
(* C1.  With an empty WEATHER_API_KEY every invocation, whatever its       *)
(* arguments and headers, returns exactly the credential-missing           *)
(* ErrorResult; it issues no request, opens no client and never reads the  *)
(* request headers.                                                        *)
(***************************************************************************)
C1_NoCredentialNoNetwork ==
    \A i \in Calls :
        (WEATHER_API_KEY = <<>> /\ pc[i] # "idle") =>
            /\ Done(i)
            /\ result[i] = (K_error :> Str(M_NoKey))
            /\ sent[i] = <<>>
            /\ client[i] = "none"
            /\ ~headersRead[i]
            /\ ~raised[i]

\* an invocation with a malformed userinfo header and no credential returned
C1_Witness ==
    /\ WEATHER_API_KEY = <<>>
    /\ Done(1)
    /\ reqHeaders[1] = H_nopad
    /\ args[1].units = "imperial"

(***************************************************************************)
(* C2.  An invocation that finishes has returned a mapping, either the     *)
(* eleven-key summary or the one-key ErrorResult with a non-empty text     *)
(* message, and no exception has left get_current_weather.                 *)
(***************************************************************************)
C2_AlwaysReturnsMapping ==
    \A i \in Calls :
        Done(i) =>
            /\ ~raised[i]
            /\ IsSummary(result[i]) \/ IsErrorResult(result[i])

\* a missing field (KeyError) was turned into an ErrorResult
C2_Witness ==
    /\ Done(1)
    /\ exc[1].type = "KeyError"
    /\ HasResponse(1) /\ Status(1) = 200
    /\ IsErrorResult(result[1])

(***************************************************************************)
(* C3, as claimed.  With a credential configured, every invocation that    *)
(* has returned issued exactly one request.                                *)
(***************************************************************************)
C3_ExactlyOneRequest ==
    \A i \in Calls : (Configured /\ Done(i)) => Len(sent[i]) = 1

(***************************************************************************)
(* C3, amended.  An invocation never issues more than one request, every   *)
(* request is a GET to the /weather endpoint, and with a credential        *)
(* configured an invocation that has returned issued exactly one request   *)
(* unless reading the userinfo header raised, in which case it issued      *)
(* none.                                                                   *)
(***************************************************************************)
C3_OneRequestUnlessHeaderFails ==
    \A i \in Calls :
        /\ Len(sent[i]) <= 1
        /\ \A n \in 1..Len(sent[i]) :
              /\ sent[i][n].method = "GET"
              /\ sent[i][n].url = WEATHER_BASE_URL \o <<"/weather">>
        /\ (Configured /\ Done(i)) =>
              Len(sent[i]) = IF ReadUserinfo(reqHeaders[i]).ok THEN 1 ELSE 0

\* one request was issued and failed with a network error; the call returned
C3_Witness ==
    /\ Configured /\ Done(1)
    /\ delivered[1] = NetworkError
    /\ Len(sent[1]) = 1

C5_Field(i, k, path, suffix) ==
    LET text == result[i][k].v
        numeral == DropLast(text, Len(suffix))
    IN  /\ IsText(result[i][k])
        /\ EndsWith(text, suffix)
        /\ IsNumeral(numeral)
        /\ NumeralValue(numeral) = Provided(i, path)

C5_UnitLabels ==
    \A i \in Calls :
        (Done(i) /\ IsSummary(result[i])) =>
            LET metric == args[i].units = "metric"
                temp == IF metric THEN <<Deg, "C">> ELSE <<Deg, "F">>
                wind == IF metric THEN <<" ", "m", "/", "s">>
                        ELSE <<" ", "m", "p", "h">>
            IN  /\ C5_Field(i, K_temp, <<"main", "temp">>, temp)
                /\ C5_Field(i, K_feels_like, <<"main", "feels_like">>, temp)
                /\ C5_Field(i, K_temp_min, <<"main", "temp_min">>, temp)
                /\ C5_Field(i, K_temp_max, <<"main", "temp_max">>, temp)
                /\ C5_Field(i, K_wind, <<"wind", "speed">>, wind)

\* a summary for units "standard", from a body with negative one-decimal floats
C5_Witness ==
    /\ Done(1)
    /\ args[1].units = "standard"
    /\ HasResponse(1) /\ ProviderBody(1) = B_floats
    /\ IsSummary(result[1])
    /\ result[1][K_temp] = Str(<<"-", "0", ".", "5", Deg, "F">>)
    /\ result[1][K_wind] = Str(<<"4", ".", "1", " ", "m", "p", "h">>)

(***************************************************************************)
(* C6.  After a response with a status outside 200..299 the call returns   *)
(* the ErrorResult its status code determines, whatever the body: the      *)
(* city-not-found message followed by the city for 404, the fixed          *)
(* invalid-credential message for 401, and the HTTP-failure message        *)
(* followed by the decimal status code for any other status.               *)
(***************************************************************************)
C6_StatusDecidesError ==
    \A i \in Calls :
        (Done(i) /\ HasResponse(i) /\ ~(Status(i) \in 200..299)) =>
            result[i] = (K_error :> Str(
                CASE Status(i) = 404 -> M_NotFound \o args[i].city
                  [] Status(i) = 401 -> M_BadKey
                  [] OTHER -> M_HttpFail \o IntStr(Status(i))))

\* a 404 whose body is a well-formed weather body
C6_Witness ==
    /\ Done(1)
    /\ HasResponse(1) /\ Status(1) = 404 /\ ProviderBody(1) = B_shanghai
    /\ args[1].city = <<"N", "Y">>
    /\ Message(result[1]) = M_NotFound \o <<"N", "Y">>

(***************************************************************************)
(* C7, as claimed.  After a 200 response whose body has every documented   *)
(* key, the call returns the eleven keys, each with a non-empty text       *)
(* value.                                                                  *)
(***************************************************************************)
HasDocumentedShape(body) ==
    /\ body.t # "invalid"
    /\ \A n \in 1..Len(WeatherEntries("metric")) :
          Lookup(body, WeatherEntries("metric")[n].path).ok

C7_ElevenNonEmptyTexts ==
    \A i \in Calls :
        (Done(i) /\ HasResponse(i) /\ Status(i) = 200
            /\ HasDocumentedShape(ProviderBody(i))) =>
            /\ DOMAIN result[i] = SummaryKeys
            /\ \A k \in SummaryKeys : IsNonEmptyText(result[i][k])

(***************************************************************************)
(* C7, amended.  After a 200 response whose body has every documented key, *)
(* the call returns exactly the eleven keys; the eight formatted values    *)
(* (temperatures, humidity, pressure, wind speed, cloud cover) are         *)
(* non-empty texts, and the city, country and description are the          *)
(* provider's name, sys.country and weather[0].description as received,    *)
(* whatever they are.                                                      *)
(***************************************************************************)
C7_ElevenKeys ==
    \A i \in Calls :
        (Done(i) /\ HasResponse(i) /\ Status(i) = 200
            /\ HasDocumentedShape(ProviderBody(i))) =>
            /\ DOMAIN result[i] = SummaryKeys
            /\ \A k \in SummaryKeys \ PassedThroughKeys :
                  IsNonEmptyText(result[i][k])
            /\ result[i][K_city] = Provided(i, <<"name">>)
            /\ result[i][K_country] = Provided(i, <<"sys", "country">>)
            /\ result[i][K_description] =
                  Provided(i, <<"weather", "[0]", "description">>)

\* a summary whose city is the empty text and whose country is None
C7_Witness ==
    /\ Done(1)
    /\ HasResponse(1) /\ Status(1) = 200 /\ ProviderBody(1) = B_blank
    /\ IsSummary(result[1])
    /\ result[1][K_city] = Str(<<>>)
    /\ result[1][K_country] = None

(***************************************************************************)
(* C9.  The client of an invocation is open only between the issue of the  *)
(* request and the exit of the async with block: it is closed when the     *)
(* body is parsed, when an except clause runs and when the call returns,   *)
(* and a request is only ever issued through it.                           *)
(***************************************************************************)
C9_ClientReleased ==
    \A i \in Calls :
        /\ client[i] = "open" =>
              pc[i] \in {"await_get", "raise_for_status", "aexit"}
        /\ pc[i] \in {"json", "except", "done"} => client[i] # "open"
        /\ sent[i] # <<>> => client[i] # "none"
        /\ (sent[i] # <<>> /\ pc[i] \in {"json", "except", "done"}) =>
              client[i] = "closed"

\* the HTTPStatusError handler is about to run and the client is closed
C9_Witness ==
    /\ pc[1] = "except"
    /\ exc[1].type = "httpx.HTTPStatusError"
    /\ client[1] = "closed"

(***************************************************************************)
(* C8, as claimed.  Two invocations with the same arguments and the same   *)
(* provider behaviour (the same answer, where both got one) return the     *)
(* same mapping and issue the same requests, whatever their userinfo       *)
(* headers.                                                                *)
(***************************************************************************)
SameProviderBehaviour(i, j) ==
    \/ delivered[i] = delivered[j]
    \/ delivered[i] = NoOutcome
    \/ delivered[j] = NoOutcome

C8_HeaderHasNoInfluence ==
    \A i, j \in Calls :
        (Done(i) /\ Done(j) /\ args[i] = args[j]
            /\ SameProviderBehaviour(i, j)) =>
            /\ result[i] = result[j]
            /\ sent[i] = sent[j]

(***************************************************************************)
(* C8, amended.  A userinfo header that is absent, empty or decodable      *)
(* (base64url of UTF-8 text) has no influence on the result: two such      *)
(* invocations with the same arguments and the same answer return the same *)
(* mapping and issue the same request, and each of them does issue its     *)
(* request.  A header that does not decode makes the invocation return     *)
(* the generic-failure ErrorResult without issuing a request.              *)
(***************************************************************************)
HeaderDecodes(headers) ==
    \/ "userinfo" \notin DOMAIN headers
    \/ headers["userinfo"].v = <<>>
    \/ DecodeUserinfo(headers["userinfo"].v).ok

C8_DecodableHeaderHasNoInfluence ==
    /\ \A i, j \in Calls :
          (Done(i) /\ Done(j) /\ args[i] = args[j]
              /\ HeaderDecodes(reqHeaders[i]) /\ HeaderDecodes(reqHeaders[j])
              /\ delivered[i] = delivered[j]) =>
              /\ result[i] = result[j]
              /\ sent[i] = sent[j]
    /\ \A i \in Calls :
          (Configured /\ Done(i)) =>
              IF HeaderDecodes(reqHeaders[i])
              THEN Len(sent[i]) = 1
              ELSE /\ sent[i] = <<>>
                   /\ IsErrorResult(result[i])
                   /\ StartsWith(Message(result[i]), M_Failed)

\* two calls that differ only in the header returned the same summary, and
\* the two lines they printed differ
C8_Witness ==
    /\ Done(1) /\ Done(2)
    /\ args[1] = args[2]
    /\ reqHeaders[1] = H_absent /\ reqHeaders[2] = H_a
    /\ delivered[1] = Answer(200, B_shanghai)
    /\ delivered[2] = delivered[1]
    /\ IsSummary(result[1])
    /\ result[1] = result[2]
    /\ sent[1] = sent[2]
    /\ \E m, n \in 1..Len(stdout) :
          stdout[m] = NoneUserInfoLine /\ stdout[n] = UserInfoLine(<<97>>)

(***************************************************************************)
(* C10.  Under every interleaving, an invocation that has returned         *)
(* returned what get_current_weather returns when run alone on its         *)
(* arguments, its headers and the answer it got; a step of one invocation  *)
(* changes no local state of another; and WEATHER_API_KEY never changes.   *)
(***************************************************************************)
Locals(i) ==
    <<pc[i], args[i], reqHeaders[i], headersRead[i], location[i], client[i],
      sent[i], response[i], exc[i], result[i], raised[i], delivered[i]>>

C10_Independent ==
    /\ [](\A i \in Calls :
            Done(i) =>
                /\ ~raised[i]
                /\ result[i] = RunAlone(WEATHER_API_KEY, args[i],
                                        reqHeaders[i], delivered[i]))
    /\ [][\A i \in Calls :
            Locals(i)' # Locals(i) =>
                \A j \in Calls \ {i} : Locals(j)' = Locals(j)]_vars
    /\ [][WEATHER_API_KEY' = WEATHER_API_KEY]_vars

\* call 2 was suspended at its request during the whole run of call 1, which
\* got a 404 for another city
C10_Witness ==
    /\ Done(1)
    /\ pc[2] = "await_get"
    /\ reqHeaders[1] = H_absent /\ reqHeaders[2] = H_a
    /\ Len(stdout) = 5
    /\ stdout[3] = UserInfoLine(<<97>>)
    /\ stdout[4] = NoneUserInfoLine
    /\ args[1].city # args[2].city
    /\ Message(result[1]) = M_NotFound \o args[1].city

====
